---- MODULE Spec2Model ----
(***************************************************************************)
(* A model of the hybrid retrieval engine of agentic-proof-pack:           *)
(*   app/retrieval.py  (chunker, KBIndex, the process-wide index facade),  *)
(*   app/reranker.py, app/faiss_index.py, app/orchestrator.py, app/main.py *)
(*                                                                         *)
(* Six specifications share the module:                                    *)
(*   SpecChunks  make_chunks as a function of (lines, window, stride)      *)
(*   SpecLoop    the while loop of make_chunks, one iteration per step     *)
(*   SpecDims    the component count FaissIndex.__init__ picks             *)
(*   SpecBuilds  two KBIndex builds of one document set, one question      *)
(*   SpecSearch  KBIndex construction and KBIndex.hybrid_search            *)
(*   Spec        the threads of the web process running get_index,         *)
(*               rebuild_index and hybrid_search against the global _index *)
(* Text is modelled character by character: a string is a sequence of      *)
(* one-character strings, " " and "\n" being the whitespace.               *)
(***************************************************************************)
EXTENDS Integers, Sequences, FiniteSets, TLC

VARIABLES
    mc_lines,    \* make_chunks: the argument lines
    mc_window,   \* make_chunks: the argument window
    mc_stride,   \* make_chunks: the argument stride
    mc_out,      \* make_chunks: the returned list
    mc_called,   \* whether make_chunks has returned
    mc_i,        \* make_chunks: the loop variable i
    disk,        \* the KB directory: file name -> [present, raw lines]
    cfg,         \* settings, environment and which optional libraries import
    heap,        \* the KBIndex objects: object id -> its fields
    _index,      \* retrieval._index: an object id, or None
    th,          \* per thread: the request it serves and where it stands
    ver,         \* per file, how many add/removes of it have completed
    threads,     \* the threads that serve requests
    budget,      \* how many more requests the run takes (negative: any number)
    fd_dims,     \* FaissIndex.__init__: the argument dims
    fd_features, \* FaissIndex.__init__: n_features of the fitted vocabulary
    fd_out,      \* FaissIndex.__init__: whether an SVD was set up, and its eff_dims
    fd_called,   \* whether FaissIndex.__init__ has run
    db_docs,     \* two builds: the documents in the KB directory
    db_cfg,      \* two builds: the settings and libraries of both
    db_orders,   \* two builds: the order os.listdir gave to each build
    db_q,        \* two builds: the question asked of both indexes
    db_k,        \* two builds: its top_k
    db_out       \* two builds: what the search on each index returned so far

chunkVars == <<mc_lines, mc_window, mc_stride, mc_out, mc_called, mc_i>>
facadeVars == <<disk, cfg, heap, _index, th, ver, threads, budget>>
dimVars == <<fd_dims, fd_features, fd_out, fd_called>>
buildVars == <<db_docs, db_cfg, db_orders, db_q, db_k, db_out>>
vars == <<chunkVars, facadeVars, dimVars, buildVars>>

\* ------------------------------------------------------------------ bounds
MaxLines == 4
MaxWindow == 3
MaxStride == 3
MaxK == 2
NThreads == 2
MaxRequests == 3
MaxDims == 12
MaxFeatures == 12

\* ------------------------------------------------------------ text helpers
Min(a, b) == IF a <= b THEN a ELSE b
Max(a, b) == IF a >= b THEN a ELSE b

\* str.isspace() for the characters of the model
IsSpace(c) == c \in {" ", "\n"}

RECURSIVE LStrip(_)
LStrip(s) ==
    IF s = <<>> THEN <<>>
    ELSE IF IsSpace(Head(s)) THEN LStrip(Tail(s)) ELSE s

RECURSIVE RStrip(_)
RStrip(s) ==
    IF s = <<>> THEN <<>>
    ELSE IF IsSpace(s[Len(s)]) THEN RStrip(SubSeq(s, 1, Len(s) - 1)) ELSE s

\* str.strip()
Strip(s) == RStrip(LStrip(s))

\* "\n".join(list)
RECURSIVE Join(_)
Join(ls) ==
    IF ls = <<>> THEN <<>>
    ELSE IF Len(ls) = 1 THEN ls[1]
    ELSE ls[1] \o <<"\n">> \o Join(Tail(ls))

\* str.startswith(p)
HasPrefix(s, p) == Len(s) >= Len(p) /\ SubSeq(s, 1, Len(p)) = p

\* p in s
Contains(s, p) == \E i \in 1 .. (Len(s) - Len(p) + 1) : SubSeq(s, i, i + Len(p) - 1) = p

\* A faulty variant of PySlice: the slice stops one element early (lines[s:e]).
PySliceShort(seq, lo, hi) ==
    LET n == Len(seq)
        h1 == hi - 1
        h0 == IF h1 < 0 THEN Max(0, h1 + n) ELSE Min(h1, n)
        l0 == Min(lo, n)
    IN  IF l0 >= h0 THEN <<>> ELSE SubSeq(seq, l0 + 1, h0)

\* Python's seq[lo:hi] for 0-based lo >= 0 and any integer hi: a negative hi
\* counts from the end, and both ends are clamped to the sequence.
PySlice(seq, lo, hi) ==
    LET n == Len(seq)
        h0 == IF hi < 0 THEN Max(0, hi + n) ELSE Min(hi, n)
        l0 == Min(lo, n)
    IN  IF l0 >= h0 THEN <<>> ELSE SubSeq(seq, l0 + 1, h0)

\* ------------------------------------------------------------- make_chunks
\* The while loop of make_chunks from position i on.
RECURSIVE make_chunks_from(_, _, _, _)
make_chunks_from(lines, window, stride, i) ==
    LET n == Len(lines) IN
    IF ~(i < n) THEN <<>>
    ELSE
        LET s == i
            e == Min(n - 1, i + window - 1)
            txt == Strip(Join(PySlice(lines, s, e + 1)))
            rest == make_chunks_from(lines, window, stride, i + Max(1, stride))
        IN  IF txt # <<>>
            THEN <<[start |-> s, end |-> e, text |-> txt]>> \o rest
            ELSE rest

\* A faulty variant of Advance: i += stride.
AdvanceByStride(stride) == stride

\* i += max(1, stride): what one iteration adds to i.
Advance(stride) == Max(1, stride)

\* The value of i when the while loop of make_chunks is left.
LoopExit(n, stride) ==
    LET m == Advance(stride) IN ((n + m - 1) \div m) * m

\* A faulty variant of make_chunks: the loop starts at i = 1.
make_chunks_from_one(lines, window, stride) == make_chunks_from(lines, window, stride, 1)

make_chunks(lines, window, stride) == make_chunks_from(lines, window, stride, 0)

\* ---------------------------------------------------------- document loader
LowerSeq == <<"a", "b", "c", "d", "e", "f", "g", "h", "i", "j", "k", "l", "m",
             "n", "o", "p", "q", "r", "s", "t", "u", "v", "w", "x", "y", "z">>
UpperSeq == <<"A", "B", "C", "D", "E", "F", "G", "H", "I", "J", "K", "L", "M",
             "N", "O", "P", "Q", "R", "S", "T", "U", "V", "W", "X", "Y", "Z">>
Letters == {LowerSeq[i] : i \in DOMAIN LowerSeq} \cup {UpperSeq[i] : i \in DOMAIN UpperSeq}
Digits == {"0", "1", "2", "3", "4", "5", "6", "7", "8", "9"}

\* str.isalpha() for the characters of the model
IsAlpha(c) == c \in Letters

\* str.lower(), one character
LowerChar(c) ==
    IF \E i \in DOMAIN UpperSeq : UpperSeq[i] = c
    THEN LowerSeq[CHOOSE i \in DOMAIN UpperSeq : UpperSeq[i] = c]
    ELSE c

\* str.lower()
Lower(s) == [i \in DOMAIN s |-> LowerChar(s[i])]

\* \w of the regular expressions
IsWordChar(c) == c \in Letters \cup Digits \cup {"_"}

\* re.findall of a run pattern (\w+): the maximal runs of word characters.
RECURSIVE ScanRuns(_, _, _, _)
ScanRuns(s, i, cur, acc) ==
    IF i > Len(s)
    THEN IF cur = <<>> THEN acc ELSE Append(acc, cur)
    ELSE IF IsWordChar(s[i])
         THEN ScanRuns(s, i + 1, Append(cur, s[i]), acc)
         ELSE ScanRuns(s, i + 1, <<>>, IF cur = <<>> THEN acc ELSE Append(acc, cur))

WordRuns(s) == ScanRuns(s, 1, <<>>, <<>>)

\* _tokenize: [t.lower() for t in _token_re.findall(text or "")]
_tokenize(text) ==
    LET runs == WordRuns(text) IN [i \in DOMAIN runs |-> Lower(runs[i])]

CountAlpha(s) == Cardinality({i \in 1 .. Len(s) : IsAlpha(s[i])})

UrlPrefixes == { <<"w", "w", "w", ".">> }
Boilerplate == <<"L", "e", "a", "r", "n", " ", "A", "b", "o", "u", "t", " ",
                 "V", "o", "r", "n", "e", " ", "X", "L">>

\* _is_noise_line: blank, a pure URL, the PDF boilerplate, or less than a
\* quarter of letters  (letters / max(1, len) < 0.25).
_is_noise_line(ln) ==
    LET s == Strip(ln) IN
    IF s = <<>> THEN TRUE
    ELSE IF \E p \in UrlPrefixes : HasPrefix(s, p) THEN TRUE
    ELSE IF Contains(s, Boilerplate) THEN TRUE
    ELSE 4 * CountAlpha(s) < Max(1, Len(s))

\* read_doc_lines for a .md/.txt file holding the raw lines `raw`:
\* the lines that are not noise.
read_doc_lines(raw) ==
    LET Keep(ln) == ~_is_noise_line(ln) IN SelectSeq(raw, Keep)

\* --------------------------------------------- scikit-learn's text analyzer
\* TfidfVectorizer(ngram_range=(1, 2), min_df=1, stop_words="english"):
\* lowercase, tokens of two or more word characters, English stop words
\* dropped, then the unigrams and the bigrams of neighbouring tokens.
StopWords == { <<"a", "s">>, <<"w", "a", "s">>, <<"i", "s">>, <<"t", "h", "e">> }

SkTokens(text) ==
    LET runs == WordRuns(Lower(text))
        Keep(tok) == Len(tok) >= 2 /\ tok \notin StopWords
    IN  SelectSeq(runs, Keep)

\* The terms of a text, with repetition: a term is <<token>> or <<token, token>>.
SkTerms(text) ==
    LET toks == SkTokens(text) IN
    [i \in 1 .. Len(toks) |-> <<toks[i]>>]
        \o [i \in 1 .. (Len(toks) - 1) |-> <<toks[i], toks[i + 1]>>]

SeqToSet(s) == {s[i] : i \in DOMAIN s}

\* vocabulary_ after fit(texts); fit raises ValueError ("empty vocabulary")
\* when it is empty.
Vocabulary(texts) == UNION {SeqToSet(SkTerms(texts[i])) : i \in DOMAIN texts}

\* The relevance of text c to text q over the terms `vocab`: the number of
\* term occurrences they share. It stands for the TF-IDF dot product / cosine,
\* with which it shares the sign: positive iff q and c share a vocabulary term.
TermOverlap(q, c, vocab) ==
    LET qt == SkTerms(q)
        ct == SkTerms(c)
    IN  Cardinality({pr \in (DOMAIN qt) \X (DOMAIN ct) :
                        qt[pr[1]] = ct[pr[2]] /\ qt[pr[1]] \in vocab})

\* np.argsort(scores)[::-1] as 0-based positions: ascending and stable (the
\* insertion sort numpy uses for short arrays), then reversed, so the higher
\* score comes first and, among equal scores, the higher position.
RECURSIVE PickDescending(_, _)
PickDescending(scores, left) ==
    IF left = {} THEN <<>>
    ELSE LET best == CHOOSE i \in left :
                        \A j \in left : scores[j] < scores[i]
                                        \/ (scores[j] = scores[i] /\ j <= i)
         IN  <<best - 1>> \o PickDescending(scores, left \ {best})

ArgsortDescending(scores) == PickDescending(scores, DOMAIN scores)

\* [int(i) for i in idx[:n] if scores[i] > 0]
PositiveTopN(scores, n) ==
    LET idx == ArgsortDescending(scores)
        Keep(i) == scores[i + 1] > 0
    IN  SelectSeq(SubSeq(idx, 1, Min(n, Len(idx))), Keep)

\* ------------------------------------------------------------------ KBIndex
DefaultWindow == 4
DefaultStride == 3
TopN == 25
SvdComponents == 256
DefaultTopK == 3

Placeholder == <<"p", "l", "a", "c", "e", "h", "o", "l", "d", "e", "r">>

\* The chunks KBIndex.__init__ appends for one document.
DocChunks(doc_id, lines) ==
    LET cs == make_chunks(lines, DefaultWindow, DefaultStride) IN
    [i \in DOMAIN cs |-> [doc_id |-> doc_id, start_line |-> cs[i].start,
                          end_line |-> cs[i].end, text |-> cs[i].text]]

\* texts = [c.text for c in self.chunks] or ["placeholder"]
IndexTexts(chunks) ==
    IF chunks = <<>> THEN <<Placeholder>> ELSE [i \in DOMAIN chunks |-> chunks[i].text]

\* FaissIndex.__init__ wants min(dims, max(2, n_features - 1, 8)) components.
EffDims(dims, n_features) == Min(dims, Max(Max(2, n_features - 1), 8))

\* FaissIndex.__init__: whether the vector index ends enabled. faiss is "on"
\* (library present, fit succeeds), "fit_error" (an exception inside the fit),
\* "no_lib" (import failed) or "off" (settings.faiss_enabled false, no object).
\* An empty vocabulary and more components than features make the fit raise.
FaissEnabled(texts, dims, faiss) ==
    LET n_features == Cardinality(Vocabulary(texts)) IN
    IF n_features = 0 THEN FALSE
    ELSE IF faiss = "no_lib" \/ n_features < 3 THEN FALSE
    ELSE IF faiss = "fit_error" \/ EffDims(dims, n_features) > n_features THEN FALSE
    ELSE TRUE

\* build_reranker: the cross-encoder when SENCODER_MODEL is set and loads,
\* the TF-IDF reranker otherwise.
build_reranker(sencoder) == IF sencoder = "ok" THEN "hf" ELSE "tfidf"

\* KBIndex.__init__ raises when the lexical fit finds no term in any chunk.
KBIndexRaises(chunks) == Vocabulary(IndexTexts(chunks)) = {}

\* TfidfReranker.vec: the vectorizer's fitted state, written by every rerank.
Unfitted == [fitted |-> FALSE, vocab |-> {}]
FittedOn(texts) == [fitted |-> TRUE, vocab |-> Vocabulary(texts)]

\* The KBIndex built from `chunks` under configuration c.
KBIndex(chunks, c) ==
    LET texts == IndexTexts(chunks)
        empty == (chunks = <<>>)
    IN  [ chunks   |-> chunks,
          empty    |-> empty,
          lex_vocab |-> Vocabulary(texts),
          bm25     |-> (c.bm25_lib /\ ~empty /\ c.bm25_enabled),
          fuzz     |-> c.fuzz_lib,
          faiss    |-> IF c.faiss = "off" THEN "none"
                       ELSE IF FaissEnabled(texts, SvdComponents, c.faiss)
                            THEN "enabled" ELSE "disabled",
          reranker |-> build_reranker(c.sencoder),
          rr_vec   |-> Unfitted ]

\* ------------------------------------------------------------------ signals
ChunkIds(ix) == 0 .. (Len(ix.chunks) - 1)

\* The rows of lex_mx are the texts the index was fitted on: the chunks'
\* texts, or the one placeholder text of an index without chunks.
LexicalScores(ix, query) ==
    LET texts == IndexTexts(ix.chunks) IN
    [i \in DOMAIN texts |-> TermOverlap(query, texts[i], ix.lex_vocab)]

\* A faulty variant of lexical_topn: without the guard on self._empty.
lexical_topn_unguarded(ix, query, n) == PositiveTopN(LexicalScores(ix, query), n)

\* KBIndex.lexical_topn
lexical_topn(ix, query, n) ==
    IF ix.empty THEN <<>>
    ELSE PositiveTopN(LexicalScores(ix, query), n)

\* The occurrences of the query tokens among the chunk's tokens, times 100:
\* it stands for BM25Okapi.get_scores.
Bm25Score(qtok, toks) ==
    100 * Cardinality({pr \in (DOMAIN qtok) \X (DOMAIN toks) : qtok[pr[1]] = toks[pr[2]]})

\* The fuzzy boost of bm25_topn: 0.15 * s for token_set_ratio s > 0.85, here
\* for s = 1, which rapidfuzz gives when one token set contains the other.
FuzzBoost(qtok, toks) ==
    IF toks = <<>> THEN 0
    ELSE IF SeqToSet(qtok) \subseteq SeqToSet(toks) \/ SeqToSet(toks) \subseteq SeqToSet(qtok)
         THEN 15 ELSE 0

\* A faulty variant of bm25_topn: it scores whether or not self._bm25 was built.
bm25_topn_unguarded(ix, query, n) ==
    IF ix.empty \/ Strip(query) = <<>> THEN <<>>
    ELSE LET qtok == _tokenize(query)
             scores == [i \in DOMAIN ix.chunks |->
                          Bm25Score(qtok, _tokenize(ix.chunks[i].text))]
         IN  PositiveTopN(scores, n)

\* KBIndex.bm25_topn
bm25_topn(ix, query, n) ==
    IF ~ix.bm25 \/ ix.empty \/ Strip(query) = <<>> THEN <<>>
    ELSE LET qtok == _tokenize(query)
             scores == [i \in DOMAIN ix.chunks |->
                          LET toks == _tokenize(ix.chunks[i].text) IN
                          Bm25Score(qtok, toks)
                            + (IF ix.fuzz /\ Len(qtok) <= 3 THEN FuzzBoost(qtok, toks) ELSE 0)]
         IN  PositiveTopN(scores, n)

\* A faulty variant of FaissSearch: the enabled flag is not looked at.
FaissSearchAlways(ix, query, top_k, raises) ==
    IF Strip(query) = <<>> \/ raises THEN <<>>
    ELSE LET scores == [i \in DOMAIN ix.chunks |->
                            TermOverlap(query, ix.chunks[i].text, ix.lex_vocab)]
             idx == ArgsortDescending(scores)
         IN  SubSeq(idx, 1, Min(top_k, Len(idx)))

\* FaissIndex.search: the top_k nearest chunks whatever their score, nearest
\* first; nothing when disabled, for a blank query, or when the search raises.
FaissSearch(ix, query, top_k, raises) ==
    IF ix.faiss # "enabled" \/ Strip(query) = <<>> THEN <<>>
    ELSE IF raises THEN <<>>
    ELSE LET scores == [i \in DOMAIN ix.chunks |->
                            TermOverlap(query, ix.chunks[i].text, ix.lex_vocab)]
             idx == ArgsortDescending(scores)
         IN  SubSeq(idx, 1, Min(top_k, Len(idx)))

\* KBIndex.faiss_topn
faiss_topn(ix, query, n, raises) ==
    IF ix.empty \/ ix.faiss = "none" THEN <<>>
    ELSE FaissSearch(ix, query, n, raises)

\* The set cand_ids as Python iterates it: small integers in ascending order.
RECURSIVE Ascending(_)
Ascending(S) ==
    IF S = {} THEN <<>>
    ELSE LET m == CHOOSE x \in S : \A y \in S : x <= y
         IN  <<m>> \o Ascending(S \ {m})

\* A faulty variant of FuseCandidates: the lexical signal has priority, the others
\* are asked only when it finds nothing.
FuseLexicalFirst(lex, bm25, faiss) ==
    IF lex # <<>> THEN SeqToSet(lex) ELSE SeqToSet(bm25) \cup SeqToSet(faiss)

\* cand_ids of hybrid_search: the union of the three signals.
FuseCandidates(lex, bm25, faiss) == SeqToSet(lex) \cup SeqToSet(bm25) \cup SeqToSet(faiss)

\* ----------------------------------------------------------------- reranker
\* The texts TfidfReranker.rerank fits its vectorizer on: [query] + texts.
RerankTexts(query, cand_texts) ==
    <<query>> \o (IF cand_texts = <<>> THEN << <<>> >> ELSE cand_texts)

\* TfidfReranker.rerank on a vectorizer fitted by this very call: the
\* candidate positions by similarity to the query.
TfidfOrder(query, cand_texts) ==
    LET vocab == Vocabulary(RerankTexts(query, cand_texts))
        sim == [i \in DOMAIN cand_texts |-> TermOverlap(query, cand_texts[i], vocab)]
    IN  ArgsortDescending(sim)

PositionOrders(n) ==
    {f \in [1 .. n -> 0 .. (n - 1)] : \A i, j \in 1 .. n : i # j => f[i] # f[j]}

Raised == [raised |-> TRUE, order |-> <<>>]
Ordered(order) == [raised |-> FALSE, order |-> order]

\* What reranker.rerank(query, candidates) can hand back: an order over the
\* candidate positions, or an exception. The TF-IDF reranker raises on an
\* empty vocabulary; the cross-encoder's scores are the model's: any order,
\* or a failure of the inference.
RerankOutcomes(kind, query, cand_texts) ==
    IF kind = "tfidf"
    THEN IF Vocabulary(RerankTexts(query, cand_texts)) = {}
         THEN {Raised}
         ELSE {Ordered(TfidfOrder(query, cand_texts))}
    ELSE {Ordered(o) : o \in PositionOrders(Len(cand_texts))} \cup {Raised}

\* ------------------------------------------------------------ hybrid_search
\* A faulty variant of SelectTop: one entry too many.
SelectTopPlusOne(order, top_k) == SubSeq(order, 1, Min(Len(order), Max(1, top_k) + 1))

\* order[: max(1, top_k)]
SelectTop(order, top_k) == SubSeq(order, 1, Min(Len(order), Max(1, top_k)))

\* if not query.strip(): return []  -- no signal is asked.
NoCandidates ==
    [blank |-> TRUE, invoked |-> {}, lex |-> <<>>, bm25 |-> <<>>,
     faiss |-> <<>>, cand |-> <<>>, raised |-> {}, failed |-> FALSE]

\* bm25_topn gets as far as self._bm25.get_scores(qtok).
Bm25Scored(ix, query) == ix.bm25 /\ ~ix.empty /\ Strip(query) # <<>>

\* faiss_topn gets as far as the try block of FaissIndex.search.
FaissSearched(ix, query) == ix.faiss = "enabled" /\ ~ix.empty /\ Strip(query) # <<>>

\* A faulty variant of QueryIsBlank: only the empty string counts as blank.
QueryIsEmpty(query) == query = <<>>

\* not query.strip()
QueryIsBlank(query) == Strip(query) = <<>>

\* KBIndex.hybrid_search(query, top_k) on index ix, up to the reranker call:
\* the signals' lists and the candidates. An exception inside the BM25
\* scoring (bm25_raises) is caught nowhere: it ends hybrid_search before the
\* vector signal is asked. An exception inside the vector search
\* (faiss_raises) is caught by FaissIndex.search.
Candidates(ix, query, bm25_raises, faiss_raises) ==
    IF QueryIsBlank(query)
    THEN NoCandidates
    ELSE LET lex == lexical_topn(ix, query, TopN)
             bm == bm25_topn(ix, query, TopN)
             fa == faiss_topn(ix, query, TopN, faiss_raises)
         IN  IF bm25_raises /\ Bm25Scored(ix, query)
             THEN [blank |-> FALSE, invoked |-> {"lexical", "bm25"},
                   lex |-> lex, bm25 |-> <<>>, faiss |-> <<>>, cand |-> <<>>,
                   raised |-> {"bm25"}, failed |-> TRUE]
             ELSE [blank |-> FALSE, invoked |-> {"lexical", "bm25", "faiss"},
                   lex |-> lex, bm25 |-> bm, faiss |-> fa,
                   cand |-> Ascending(FuseCandidates(lex, bm, fa)),
                   raised |-> IF faiss_raises /\ FaissSearched(ix, query)
                              THEN {"faiss"} ELSE {},
                   failed |-> FALSE]

CandTexts(ix, cand) == [i \in DOMAIN cand |-> ix.chunks[cand[i] + 1].text]

\* The rest of KBIndex.hybrid_search: given the reranker's answer, the chunk
\* ids returned (selected_ids), or the exception.
SearchResult(c, outcome, top_k) ==
    IF c.cand = <<>>
    THEN [status |-> "ok", reranked |-> FALSE, order |-> <<>>, result |-> <<>>]
    ELSE IF outcome.raised
    THEN [status |-> "error", reranked |-> TRUE, order |-> <<>>, result |-> <<>>]
    ELSE LET sel == SelectTop(outcome.order, top_k) IN
         [status |-> "ok", reranked |-> TRUE, order |-> outcome.order,
          result |-> [i \in DOMAIN sel |-> c.cand[sel[i] + 1]]]

\* ------------------------------------------------------------- guardrails
\* scrub_pii rewrites e-mail addresses and digit runs; the questions of the
\* model hold neither "@" nor a digit, and on those it changes nothing.
scrub_pii(text) == text

InjectionPatterns == { <<"p", "r", "e", "t", "e", "n", "d">>,
                       <<"o", "v", "e", "r", "r", "i", "d", "e">>,
                       <<"j", "a", "i", "l", "b", "r", "e", "a", "k">> }

\* detect_injection: the fixed words of _INJECTION, case-insensitive.
detect_injection(text) ==
    IF text = <<>> THEN FALSE
    ELSE \E p \in InjectionPatterns : Contains(Lower(text), p)

\* handle_ask: topk = max(1, req.top_k or settings.default_top_k)
AskTopK(top_k) == Max(1, IF top_k = 0 THEN DefaultTopK ELSE top_k)

\* No AskResponse: handle_ask has not returned (yet, or it raised).
NoResponse ==
    [sent |-> FALSE, insufficient_context |-> FALSE, citations |-> <<>>,
     grounded_ratio |-> 0]

\* A faulty variant of AskResponse: only an injection is under-grounded.
AskResponseUnlessInjection(inj, chunks) ==
    [sent |-> TRUE, insufficient_context |-> inj,
     citations |-> IF inj THEN <<>>
                   ELSE [i \in DOMAIN chunks |->
                           [doc_id |-> chunks[i].doc_id, start_line |-> chunks[i].start_line,
                            end_line |-> chunks[i].end_line, snippet |-> chunks[i].text]],
     grounded_ratio |-> IF inj \/ chunks = <<>> THEN 0 ELSE 1]

\* handle_ask from "if inj or not chunks" on: the AskResponse returned for the
\* chunks retrieved (grounded_ratio 0.0 or 1.0).
AskResponse(inj, chunks) ==
    IF inj \/ chunks = <<>>
    THEN [sent |-> TRUE, insufficient_context |-> TRUE, citations |-> <<>>,
          grounded_ratio |-> 0]
    ELSE LET citations == [i \in DOMAIN chunks |->
                             [doc_id |-> chunks[i].doc_id,
                              start_line |-> chunks[i].start_line,
                              end_line |-> chunks[i].end_line,
                              snippet |-> chunks[i].text]]
         IN  [sent |-> TRUE, insufficient_context |-> FALSE, citations |-> citations,
              grounded_ratio |-> IF citations # <<>> THEN 1 ELSE 0]

\* ------------------------------------------------------ the KB directory
DocOrder == <<"a.md", "b.txt", "c.txt">>
DocIds == SeqToSet(DocOrder)

\* What an upload of each file writes.
FileA == << <<"a", "b", " ", "b", "a">>,
            <<"w", "w", "w", ".", "a", "b">>,
            <<"b", "b", " ", "a", "b">>,
            <<>>,
            <<"a", "s", " ", "b", "a">>,
            <<" ", "a", "a">>,
            <<"s", "a", " ", "A", "b">> >>
FileB == << <<"b", "b", " ", "a", "s">> >>
FileC == << <<"a", "s", " ", "b">> >>

FileContent(d) == IF d = "a.md" THEN FileA ELSE IF d = "b.txt" THEN FileB ELSE FileC

Absent == [present |-> FALSE, raw |-> <<>>]
EmptyFile == [present |-> TRUE, raw |-> <<>>]
FullFile(d) == [present |-> TRUE, raw |-> FileContent(d)]

DiskOf(S) == [d \in DocIds |-> IF d \in S THEN FullFile(d) ELSE Absent]

\* os.listdir(kb_dir), kept to the supported extensions, in directory order.
ListDir(dk) == LET Here(d) == dk[d].present IN SelectSeq(DocOrder, Here)

\* read_doc_lines(path): [] when the file cannot be opened.
ReadFile(dk, d) == IF dk[d].present THEN read_doc_lines(dk[d].raw) ELSE <<>>

\* The chunks of the documents read, in the order iter_docs yielded them.
RECURSIVE AllChunks(_)
AllChunks(docs) ==
    IF docs = <<>> THEN <<>>
    ELSE DocChunks(docs[1].doc_id, docs[1].lines) \o AllChunks(Tail(docs))

\* list(iter_docs(kb_dir)) taken in one go from directory dk.
RECURSIVE ReadDocs(_, _)
ReadDocs(dk, names) ==
    IF names = <<>> THEN <<>>
    ELSE LET lines == ReadFile(dk, names[1]) IN
         (IF lines # <<>> THEN <<[doc_id |-> names[1], lines |-> lines]>> ELSE <<>>)
            \o ReadDocs(dk, Tail(names))

ChunksOfDisk(dk) == AllChunks(ReadDocs(dk, ListDir(dk)))

\* ----------------------------------------------------------------- the heap
None == 0
ObjIds == 1 .. (2 * NThreads + 1)
ThreadIds == 1 .. NThreads

NoObj == [alloc |-> FALSE]

\* A KBIndex under construction: self.chunks = [] and nothing else yet.
Partial(chunks, seen_ver, builder) ==
    [alloc |-> TRUE, done |-> FALSE, chunks |-> chunks,
     seen_ver |-> seen_ver, builder |-> builder]

\* A KBIndex whose __init__ has returned.
Complete(chunks, c, seen_ver, builder) ==
    [alloc |-> TRUE, done |-> TRUE, ix |-> KBIndex(chunks, c), chunks |-> chunks,
     seen_ver |-> seen_ver, builder |-> builder]

Idle == [pc |-> "idle"]

\* The objects something still refers to.
Referenced(index, t2) ==
    (IF index = None THEN {} ELSE {index})
        \cup UNION {IF t2[t].pc = "idle" THEN {}
                    ELSE {t2[t].obj, t2[t].idx, t2[t].seen} \ {None} : t \in ThreadIds}

\* Garbage collection: an object nothing refers to is gone.
Collect(h, index, t2) ==
    [o \in ObjIds |-> IF o \in Referenced(index, t2) THEN h[o] ELSE NoObj]

FreeId(h) == CHOOSE o \in ObjIds : ~h[o].alloc /\ \A p \in ObjIds : p < o => h[p].alloc

\* ------------------------------------------------------ starting a request
Request(op, doc, q, top_k) ==
    [pc |-> "start", op |-> op, doc |-> doc, q |-> q, top_k |-> top_k,
     topk |-> AskTopK(top_k), start_ver |-> ver,
     obj |-> None, idx |-> None, seen |-> None, built |-> FALSE,
     todo |-> <<>>,
     cand |-> NoCandidates,
     fitted |-> Unfitted, outcome |-> Raised, raced |-> FALSE,
     status |-> "running", result |-> <<>>, resp |-> NoResponse]

Set(t, r) == th' = [th EXCEPT ![t] = r]
Mine(t) == th[t]

\* The event loop runs one coroutine at a time: while kb_upload is inside its
\* synchronous rebuild_index() call no other kb_upload advances.
InRebuild(r) ==
    r.pc \in {"rb_clear", "gi_check", "ki_list", "ki_read", "ki_fit", "gi_store", "gi_ret"}
MayRun(t) ==
    /\ t \in threads
    /\ (th[t].pc # "idle" /\ th[t].op = "upload")
         => \A u \in ThreadIds \ {t} :
               ~(th[u].pc # "idle" /\ th[u].op = "upload" /\ InRebuild(th[u]))

\* A free thread takes the next request.
Accept(t) ==
    /\ t \in threads /\ th[t].pc = "idle"
    /\ budget # 0
    /\ budget' = IF budget > 0 THEN budget - 1 ELSE budget

\* handle_ask(req) up to the retrieval: an injection skips it and is answered
\* at once.
StartAsk(t, q, top_k) ==
    /\ Accept(t)
    /\ LET r == Request("ask", "", q, top_k)
           inj == detect_injection(scrub_pii(q))
       IN  Set(t, IF inj THEN [r EXCEPT !.pc = "done", !.status = "insufficient",
                                             !.resp = AskResponse(TRUE, <<>>)]
                  ELSE [r EXCEPT !.pc = "gi_check"])
    /\ UNCHANGED <<disk, cfg, heap, _index, ver, threads, chunkVars, dimVars, buildVars>>

\* kb_reindex
StartReindex(t) ==
    /\ Accept(t)
    /\ Set(t, [Request("reindex", "", <<>>, 0) EXCEPT !.pc = "rb_clear"])
    /\ UNCHANGED <<disk, cfg, heap, _index, ver, threads, chunkVars, dimVars, buildVars>>

\* kb_upload: open(dst_path, "wb") creates or truncates the file.
StartUpload(t, d) ==
    /\ Accept(t)
    /\ \A u \in ThreadIds : ~(th[u].pc # "idle" /\ th[u].op = "upload" /\ InRebuild(th[u]))
    /\ disk' = [disk EXCEPT ![d] = EmptyFile]
    /\ Set(t, [Request("upload", d, <<>>, 0) EXCEPT !.pc = "up_write"])
    /\ UNCHANGED <<cfg, heap, _index, ver, threads, chunkVars, dimVars, buildVars>>

\* kb_upload: the body is written and the file closed.
UploadWrite(t) ==
    /\ MayRun(t) /\ th[t].pc = "up_write"
    /\ disk' = [disk EXCEPT ![th[t].doc] = FullFile(th[t].doc)]
    /\ ver' = [ver EXCEPT ![th[t].doc] = @ + 1]
    /\ Set(t, [Mine(t) EXCEPT !.pc = "rb_clear"])
    /\ UNCHANGED <<cfg, heap, _index, threads, budget, chunkVars, dimVars, buildVars>>

\* kb_delete: 404 unless os.path.isfile(path).
StartDelete(t, d) ==
    /\ Accept(t)
    /\ LET r == Request("delete", d, <<>>, 0) IN
       Set(t, IF disk[d].present THEN [r EXCEPT !.pc = "del_remove"]
              ELSE [r EXCEPT !.pc = "done", !.status = "not_found"])
    /\ UNCHANGED <<disk, cfg, heap, _index, ver, threads, chunkVars, dimVars, buildVars>>

\* kb_delete: os.remove(path); 500 when it fails.
DeleteRemove(t) ==
    /\ MayRun(t) /\ th[t].pc = "del_remove"
    /\ IF disk[th[t].doc].present
       THEN /\ disk' = [disk EXCEPT ![th[t].doc] = Absent]
            /\ ver' = [ver EXCEPT ![th[t].doc] = @ + 1]
            /\ Set(t, [Mine(t) EXCEPT !.pc = "rb_clear"])
       ELSE /\ Set(t, [Mine(t) EXCEPT !.pc = "done", !.status = "error"])
            /\ UNCHANGED <<disk, ver>>
    /\ UNCHANGED <<cfg, heap, _index, threads, budget, chunkVars, dimVars, buildVars>>

\* ------------------------------------------------ get_index / rebuild_index
\* rebuild_index: _index = None
RebuildClear(t) ==
    /\ MayRun(t) /\ th[t].pc = "rb_clear"
    /\ _index' = None
    /\ Set(t, [Mine(t) EXCEPT !.pc = "gi_check", !.start_ver = ver])
    /\ heap' = Collect(heap, None, th')
    /\ UNCHANGED <<disk, cfg, ver, threads, budget, chunkVars, dimVars, buildVars>>

\* A faulty variant of IndexIsNone: get_index builds whatever _index holds.
IndexAlwaysNone(index) == TRUE

\* get_index: if _index is None
IndexIsNone(index) == index = None

GetIndexCheck(t) ==
    /\ MayRun(t) /\ th[t].pc = "gi_check"
    /\ Set(t, [Mine(t) EXCEPT !.seen = _index,
                              !.pc = IF IndexIsNone(_index) THEN "ki_list" ELSE "gi_ret"])
    /\ UNCHANGED <<disk, cfg, heap, _index, ver, threads, budget, chunkVars, dimVars, buildVars>>

\* KBIndex.__init__: self.chunks = []; iter_docs lists the directory.
IndexList(t) ==
    /\ MayRun(t) /\ th[t].pc = "ki_list"
    /\ LET o == FreeId(heap) IN
       /\ heap' = [heap EXCEPT ![o] = Partial(<<>>, ver, th[t].op)]
       /\ Set(t, [Mine(t) EXCEPT !.obj = o, !.built = TRUE, !.todo = ListDir(disk),
                                 !.pc = "ki_read"])
    /\ UNCHANGED <<disk, cfg, _index, ver, threads, budget, chunkVars, dimVars, buildVars>>

\* iter_docs: read_doc_lines on the listed files; a file without lines (or
\* gone since the listing) is skipped. Then the chunks of every document are
\* appended to self.chunks.
IndexRead(t) ==
    /\ MayRun(t) /\ th[t].pc = "ki_read"
    /\ LET o == th[t].obj
           docs == ReadDocs(disk, th[t].todo)
       IN  /\ heap' = [heap EXCEPT
                  ![o].chunks = AllChunks(docs),
                  ![o].seen_ver = [d \in DocIds |->
                                     IF d \in SeqToSet(th[t].todo) THEN ver[d] ELSE @[d]]]
           /\ Set(t, [Mine(t) EXCEPT !.todo = <<>>, !.pc = "ki_fit"])
    /\ UNCHANGED <<disk, cfg, _index, ver, threads, budget, chunkVars, dimVars, buildVars>>

\* KBIndex.__init__: the lexical matrix, BM25, the vector index, the reranker.
\* An empty vocabulary raises out of __init__, get_index and the request.
IndexFit(t) ==
    /\ MayRun(t) /\ th[t].pc = "ki_fit"
    /\ LET o == th[t].obj IN
       IF KBIndexRaises(heap[o].chunks)
       THEN /\ Set(t, [Mine(t) EXCEPT !.pc = "done", !.status = "error", !.obj = None])
            /\ heap' = Collect(heap, _index, th')
       ELSE /\ heap' = [heap EXCEPT ![o] =
                          Complete(heap[o].chunks, cfg, heap[o].seen_ver, heap[o].builder)]
            /\ Set(t, [Mine(t) EXCEPT !.pc = "gi_store"])
    /\ UNCHANGED <<disk, cfg, _index, ver, threads, budget, chunkVars, dimVars, buildVars>>

\* get_index: _index = KBIndex(settings.kb_dir)
GetIndexStore(t) ==
    /\ MayRun(t) /\ th[t].pc = "gi_store"
    /\ _index' = th[t].obj
    /\ Set(t, [Mine(t) EXCEPT !.pc = "gi_ret", !.obj = None])
    /\ heap' = Collect(heap, _index', th')
    /\ UNCHANGED <<disk, cfg, ver, threads, budget, chunkVars, dimVars, buildVars>>

\* get_index: return _index. The caller uses the value at once: the request
\* handlers read len(idx.chunks), hybrid_search calls .hybrid_search, and
\* either raises AttributeError on None.
GetIndexReturn(t) ==
    /\ MayRun(t) /\ th[t].pc = "gi_ret"
    /\ Set(t, IF _index = None
              THEN [Mine(t) EXCEPT !.pc = "done", !.status = "error", !.idx = None]
              ELSE IF th[t].op = "ask"
                   THEN [Mine(t) EXCEPT !.pc = "hs_cand", !.idx = _index]
                   ELSE [Mine(t) EXCEPT !.pc = "done", !.status = "ok", !.idx = _index])
    /\ UNCHANGED <<disk, cfg, heap, _index, ver, threads, budget, chunkVars, dimVars, buildVars>>

\* ------------------------------------------------- KBIndex.hybrid_search
\* The blank check and the three signals; no candidate ends the search, and
\* handle_ask answers for no chunk.
SearchCandidates(t) ==
    /\ MayRun(t) /\ th[t].pc = "hs_cand"
    /\ \E bm25_raises, faiss_raises \in BOOLEAN :
         /\ bm25_raises => Bm25Scored(heap[th[t].idx].ix, th[t].q)
         /\ faiss_raises => FaissSearched(heap[th[t].idx].ix, th[t].q) /\ ~bm25_raises
         /\ LET c == Candidates(heap[th[t].idx].ix, th[t].q, bm25_raises, faiss_raises) IN
            Set(t, IF c.failed
                   THEN [Mine(t) EXCEPT !.cand = c, !.pc = "done", !.status = "error"]
                   ELSE IF c.cand = <<>>
                   THEN [Mine(t) EXCEPT !.cand = c, !.pc = "done", !.status = "ok",
                                        !.resp = AskResponse(FALSE, <<>>)]
                   ELSE [Mine(t) EXCEPT !.cand = c, !.pc = "hs_fit"])
    /\ UNCHANGED <<disk, cfg, heap, _index, ver, threads, budget, chunkVars, dimVars, buildVars>>

\* reranker.rerank, first half. TfidfReranker: self.vec is fitted on the
\* query and the candidates (an empty vocabulary raises); the cross-encoder
\* keeps no state.
RerankFit(t) ==
    /\ MayRun(t) /\ th[t].pc = "hs_fit"
    /\ LET o == th[t].idx
           texts == RerankTexts(th[t].q, CandTexts(heap[o].ix, th[t].cand.cand))
       IN  IF heap[o].ix.reranker = "tfidf"
           THEN IF Vocabulary(texts) = {}
                THEN /\ Set(t, [Mine(t) EXCEPT !.pc = "done", !.status = "error"])
                     /\ heap' = heap
                ELSE /\ heap' = [heap EXCEPT ![o].ix.rr_vec = FittedOn(texts)]
                     /\ Set(t, [Mine(t) EXCEPT !.pc = "hs_rank", !.fitted = FittedOn(texts)])
           ELSE /\ Set(t, [Mine(t) EXCEPT !.pc = "hs_rank"])
                /\ heap' = heap
    /\ UNCHANGED <<disk, cfg, _index, ver, threads, budget, chunkVars, dimVars, buildVars>>

\* reranker.rerank, second half, the selection of the top_k, and the answer
\* of handle_ask for the chunks selected. The TF-IDF
\* reranker transforms with whatever state self.vec holds now: when another
\* query has refitted it in between, the weights are that query's and the
\* call either fails on the shape or ranks with them, in whatever order
\* they give.
RerankRank(t) ==
    /\ MayRun(t) /\ th[t].pc = "hs_rank"
    /\ LET o == th[t].idx
           ix == heap[o].ix
           texts == CandTexts(ix, th[t].cand.cand)
           raced == ix.reranker = "tfidf" /\ ix.rr_vec # th[t].fitted
       IN  \E out \in (IF raced
                       THEN {Raised} \cup {Ordered(f) : f \in PositionOrders(Len(texts))}
                       ELSE RerankOutcomes(ix.reranker, th[t].q, texts)) :
              LET res == SearchResult(th[t].cand, out, th[t].topk)
                  chunks == [i \in DOMAIN res.result |-> ix.chunks[res.result[i] + 1]]
              IN
              Set(t, [Mine(t) EXCEPT !.pc = "done", !.status = res.status,
                                     !.outcome = out, !.raced = raced,
                                     !.result = res.result,
                                     !.resp = IF res.status = "ok"
                                              THEN AskResponse(FALSE, chunks)
                                              ELSE NoResponse])
    /\ UNCHANGED <<disk, cfg, heap, _index, ver, threads, budget, chunkVars, dimVars, buildVars>>

\* The response is sent; the thread is free again.
Finish(t) ==
    /\ t \in threads /\ th[t].pc = "done"
    /\ Set(t, Idle)
    /\ heap' = Collect(heap, _index, th')
    /\ UNCHANGED <<disk, cfg, _index, ver, threads, budget, chunkVars, dimVars, buildVars>>

\* --------------------------------------------------------- specifications
\* The configurations: rank_bm25 importable, BM25_ENABLED, rapidfuzz importable,
\* the vector index (see FaissEnabled), SENCODER_MODEL (unset, loads, fails).
\* A flag that cannot matter is kept at one value: BM25_ENABLED without the
\* library, rapidfuzz without BM25.
Configs ==
    { c \in [bm25_lib : BOOLEAN, bm25_enabled : BOOLEAN, fuzz_lib : BOOLEAN,
             faiss : {"on", "fit_error", "no_lib", "off"},
             sencoder : {"none", "ok", "broken"}] :
        /\ ~c.bm25_lib => c.bm25_enabled
        /\ c.fuzz_lib => (c.bm25_lib /\ c.bm25_enabled) }

Corpora == { {}, {"a.md"}, {"b.txt"}, {"c.txt"}, {"a.md", "b.txt", "c.txt"} }

NoVersions == [d \in DocIds |-> 0]

\* The process after _startup: rebuild_index() has run, its exception dropped.
AfterStartup ==
    LET chunks == ChunksOfDisk(disk) IN
    /\ ver = NoVersions
    /\ th = [t \in ThreadIds |-> Idle]
    /\ IF KBIndexRaises(chunks)
       THEN /\ _index = None
            /\ heap = [o \in ObjIds |-> NoObj]
       ELSE /\ _index = 1
            /\ heap = [o \in ObjIds |->
                        IF o = 1 THEN Complete(chunks, cfg, NoVersions, "startup") ELSE NoObj]

NoSvd == [svd |-> FALSE, eff_dims |-> 0]

DimsIdle ==
    /\ fd_dims = SvdComponents /\ fd_features = 0
    /\ fd_out = NoSvd /\ fd_called = FALSE

\* No optional library installed, no model configured.
BareConfig == [bm25_lib |-> FALSE, bm25_enabled |-> TRUE, fuzz_lib |-> FALSE,
               faiss |-> "no_lib", sencoder |-> "none"]

BuildsIdle ==
    /\ db_docs = {} /\ db_orders = <<>> /\ db_q = <<>> /\ db_k = DefaultTopK
    /\ db_cfg = BareConfig
    /\ db_out = <<>>

ChunksIdle ==
    /\ mc_lines = <<>> /\ mc_window = DefaultWindow /\ mc_stride = DefaultStride
    /\ mc_out = <<>> /\ mc_called = FALSE /\ mc_i = 0

\* ---- SpecSearch: one thread, every corpus, every configuration, questions
QueryValues ==
    { <<>>,
      <<" ", " ">>,
      <<"A", "b">>,
      <<"b">>,
      <<"b", "b", " ", "a", "a">>,
      <<"z", "z">>,
      <<"p", "r", "e", "t", "e", "n", "d", " ", "a", "b">> }

TopKs == -1 .. MaxK

InitSearch ==
    /\ ChunksIdle
    /\ DimsIdle
    /\ BuildsIdle
    /\ threads = {1}
    /\ budget = -1
    /\ disk \in {DiskOf(S) : S \in Corpora}
    /\ cfg \in Configs
    /\ AfterStartup

NextSearch ==
    \/ \E t \in ThreadIds, q \in QueryValues, k \in TopKs : StartAsk(t, q, k)
    \/ \E t \in ThreadIds : StartReindex(t)
    \/ \E t \in ThreadIds : RebuildClear(t)
    \/ \E t \in ThreadIds : GetIndexCheck(t)
    \/ \E t \in ThreadIds : IndexList(t)
    \/ \E t \in ThreadIds : IndexRead(t)
    \/ \E t \in ThreadIds : IndexFit(t)
    \/ \E t \in ThreadIds : GetIndexStore(t)
    \/ \E t \in ThreadIds : GetIndexReturn(t)
    \/ \E t \in ThreadIds : SearchCandidates(t)
    \/ \E t \in ThreadIds : RerankFit(t)
    \/ \E t \in ThreadIds : RerankRank(t)
    \/ \E t \in ThreadIds : Finish(t)

SpecSearch == InitSearch /\ [][NextSearch]_vars

\* ---- Spec: the threads of the web process, requests of every kind
SpecQueries == { <<"A", "b">>, <<"b", "b", " ", "a", "a">> }
SpecConfigs ==
    { [bm25_lib |-> TRUE, bm25_enabled |-> TRUE, fuzz_lib |-> TRUE,
       faiss |-> "off", sencoder |-> "none"] }
UploadDocs == {"b.txt"}
DeleteDocs == {"a.md"}

Init ==
    /\ ChunksIdle
    /\ DimsIdle
    /\ BuildsIdle
    /\ threads = ThreadIds
    /\ budget = MaxRequests
    /\ disk = DiskOf({"a.md"})
    /\ cfg \in SpecConfigs
    /\ AfterStartup

Next ==
    \/ \E t \in ThreadIds, q \in SpecQueries : StartAsk(t, q, 1)
    \/ \E t \in ThreadIds : StartReindex(t)
    \/ \E t \in ThreadIds, d \in UploadDocs : StartUpload(t, d)
    \/ \E t \in ThreadIds : UploadWrite(t)
    \/ \E t \in ThreadIds, d \in DeleteDocs : StartDelete(t, d)
    \/ \E t \in ThreadIds : DeleteRemove(t)
    \/ \E t \in ThreadIds : RebuildClear(t)
    \/ \E t \in ThreadIds : GetIndexCheck(t)
    \/ \E t \in ThreadIds : IndexList(t)
    \/ \E t \in ThreadIds : IndexRead(t)
    \/ \E t \in ThreadIds : IndexFit(t)
    \/ \E t \in ThreadIds : GetIndexStore(t)
    \/ \E t \in ThreadIds : GetIndexReturn(t)
    \/ \E t \in ThreadIds : SearchCandidates(t)
    \/ \E t \in ThreadIds : RerankFit(t)
    \/ \E t \in ThreadIds : RerankRank(t)
    \/ \E t \in ThreadIds : Finish(t)

Spec == Init /\ [][Next]_vars

\* ---------------------------------------------------- SpecChunks: the inputs
\* The lines make_chunks is tried on: empty, blank, with leading or trailing
\* whitespace.
LineValues == { <<>>, <<" ">>, <<" ", "a">>, <<"b", " ">> }

RECURSIVE SeqsUpTo(_, _)
SeqsUpTo(S, n) ==
    IF n = 0 THEN {<<>>}
    ELSE LET shorter == SeqsUpTo(S, n - 1)
         IN  shorter \cup {Append(q, x) : q \in {r \in shorter : Len(r) = n - 1}, x \in S}

Windows == -1 .. MaxWindow
Strides == -1 .. MaxStride

\* The facade's variables at rest, for the specification of make_chunks.
FacadeIdle ==
    /\ threads = {}
    /\ budget = 0
    /\ disk = DiskOf({})
    /\ cfg \in SpecConfigs
    /\ ver = NoVersions
    /\ th = [t \in ThreadIds |-> Idle]
    /\ _index = None
    /\ heap = [o \in ObjIds |-> NoObj]

InitChunks ==
    /\ FacadeIdle
    /\ DimsIdle
    /\ BuildsIdle
    /\ mc_lines \in SeqsUpTo(LineValues, MaxLines)
    /\ mc_window \in Windows
    /\ mc_stride \in Strides
    /\ mc_out = <<>>
    /\ mc_called = FALSE
    /\ mc_i = 0

\* One call make_chunks(lines, window, stride).
CallMakeChunks ==
    /\ ~mc_called
    /\ mc_out' = make_chunks(mc_lines, mc_window, mc_stride)
    /\ mc_called' = TRUE
    /\ mc_i' = LoopExit(Len(mc_lines), mc_stride)
    /\ UNCHANGED <<mc_lines, mc_window, mc_stride>>
    /\ UNCHANGED <<facadeVars, dimVars, buildVars>>

NextChunks == CallMakeChunks

SpecChunks == InitChunks /\ [][NextChunks]_vars

\* ------------------------------- SpecLoop: make_chunks, step by step
\* The while loop taken one iteration at a time; out and i are the function's
\* locals. The lines are empty, blank or text; windows and strides as above.
LoopLineValues == { <<>>, <<" ">>, <<"b", " ">> }

InitLoop ==
    /\ FacadeIdle
    /\ DimsIdle
    /\ BuildsIdle
    /\ mc_lines \in SeqsUpTo(LoopLineValues, MaxLines)
    /\ mc_window \in Windows
    /\ mc_stride \in Strides
    /\ mc_out = <<>>
    /\ mc_called = FALSE
    /\ mc_i = 0

\* while i < n: one iteration.
LoopStep ==
    /\ ~mc_called
    /\ mc_i < Len(mc_lines)
    /\ LET n == Len(mc_lines)
           s == mc_i
           e == Min(n - 1, mc_i + mc_window - 1)
           txt == Strip(Join(PySlice(mc_lines, s, e + 1)))
       IN  mc_out' = IF txt # <<>>
                     THEN Append(mc_out, [start |-> s, end |-> e, text |-> txt])
                     ELSE mc_out
    /\ mc_i' = mc_i + Advance(mc_stride)
    /\ UNCHANGED <<mc_lines, mc_window, mc_stride, mc_called>>
    /\ UNCHANGED <<facadeVars, dimVars, buildVars>>

\* The loop condition fails: return out.
LoopReturn ==
    /\ ~mc_called
    /\ ~(mc_i < Len(mc_lines))
    /\ mc_called' = TRUE
    /\ UNCHANGED <<mc_lines, mc_window, mc_stride, mc_out, mc_i>>
    /\ UNCHANGED <<facadeVars, dimVars, buildVars>>

NextLoop == LoopStep \/ LoopReturn

\* The interpreter keeps executing the function it is in.
SpecLoop == InitLoop /\ [][NextLoop]_vars /\ WF_vars(NextLoop)

\* ------------------------------------------ SpecDims: the component count
\* The arguments FaissIndex.__init__ is tried on: every dims >= 2 and every
\* vocabulary size up to the bounds.
DimValues == 2 .. MaxDims
FeatureValues == 0 .. MaxFeatures

InitDims ==
    /\ FacadeIdle
    /\ ChunksIdle
    /\ BuildsIdle
    /\ fd_dims \in DimValues
    /\ fd_features \in FeatureValues
    /\ fd_out = NoSvd
    /\ fd_called = FALSE

\* FaissIndex.__init__ with the library present, up to the construction of
\* TruncatedSVD(n_components=eff_dims): nothing below three features.
FitDims ==
    /\ ~fd_called
    /\ fd_out' = IF fd_features < 3 THEN NoSvd
                 ELSE [svd |-> TRUE, eff_dims |-> EffDims(fd_dims, fd_features)]
    /\ fd_called' = TRUE
    /\ UNCHANGED <<fd_dims, fd_features>>
    /\ UNCHANGED <<facadeVars, chunkVars, buildVars>>

NextDims == FitDims

SpecDims == InitDims /\ [][NextDims]_vars

\* --------------------------------- SpecBuilds: two builds, one question
\* os.listdir returns the entries "in arbitrary order": every order of the
\* files present is a listing. (The facade above lists in DocOrder, the order
\* of a directory that is not rearranged between listings.)
OrdersOf(S) ==
    {f \in [1 .. Cardinality(S) -> S] : \A i, j \in DOMAIN f : i # j => f[i] # f[j]}

\* The configurations on the deterministic reranker path.
TfidfConfigs == {c \in Configs : build_reranker(c.sencoder) = "tfidf"}

\* The KB directories built twice: the files of the facade and a byte-for-byte
\* copy of b.txt under another name.
CopyDoc == "d.txt"
BuildDocIds == DocIds \cup {CopyDoc}
BuildDisk(S) ==
    [d \in BuildDocIds |->
        IF d \notin S THEN Absent
        ELSE IF d = CopyDoc THEN FullFile("b.txt") ELSE FullFile(d)]

DocSets == {S \in SUBSET BuildDocIds : Cardinality(S) \in {1, 2}} \cup {DocIds}

\* get_index().hybrid_search(q, top_k=k) on a KB directory holding the
\* documents of `listing`, listed in that order, with no signal or model
\* failing in between: a build error, a reranker error, or the chunks.
SearchAfterBuild(listing, c, q, k) ==
    LET chunks == AllChunks(ReadDocs(BuildDisk(SeqToSet(listing)), listing)) IN
    IF KBIndexRaises(chunks) THEN [status |-> "build_error", chunks |-> <<>>]
    ELSE LET ix == KBIndex(chunks, c)
             cand == Candidates(ix, q, FALSE, FALSE)
             texts == CandTexts(ix, cand.cand)
             out == IF cand.cand = <<>> THEN Raised
                    ELSE CHOOSE o \in RerankOutcomes(ix.reranker, q, texts) : TRUE
             res == SearchResult(cand, out, k)
         IN  [status |-> res.status,
              chunks |-> [i \in DOMAIN res.result |-> ix.chunks[res.result[i] + 1]]]

InitBuilds ==
    /\ FacadeIdle
    /\ ChunksIdle
    /\ DimsIdle
    /\ db_cfg \in TfidfConfigs
    /\ db_docs \in DocSets
    /\ db_orders \in OrdersOf(db_docs) \X OrdersOf(db_docs)
    /\ db_q \in QueryValues
    /\ db_k \in 1 .. MaxK
    /\ db_out = <<>>

\* The next of the two builds, and the question asked of its index.
BuildAndSearch ==
    /\ Len(db_out) < 2
    /\ db_out' = Append(db_out,
                        SearchAfterBuild(db_orders[Len(db_out) + 1], db_cfg, db_q, db_k))
    /\ UNCHANGED <<db_docs, db_cfg, db_orders, db_q, db_k>>
    /\ UNCHANGED <<facadeVars, chunkVars, dimVars>>

NextBuilds == BuildAndSearch

SpecBuilds == InitBuilds /\ [][NextBuilds]_vars

\* ------------------------------------------------ claims about make_chunks
ChunkSeq == 1 .. Len(mc_out)

\* The lines are those of a loaded document: read_doc_lines keeps no noise line.
IsDocument(lines) == \A i \in 1 .. Len(lines) : ~_is_noise_line(lines[i])

Covered(j) == \E c \in ChunkSeq : mc_out[c].start <= j /\ j <= mc_out[c].end

\* C9 as stated: for a document of n lines, any window w and any stride
\* s <= w, the chunks' line ranges cover every line index of 0 .. n-1.
C9_CoverageAnyWindow ==
    (mc_called /\ IsDocument(mc_lines) /\ mc_stride <= mc_window)
        => \A j \in 0 .. (Len(mc_lines) - 1) : Covered(j)

\* C9 amended: for a document of n lines (no blank or noise line), any window
\* w >= 1 and any stride s <= w, the chunks' line ranges cover every line
\* index of 0 .. n-1.
C9_Coverage ==
    (mc_called /\ IsDocument(mc_lines) /\ mc_window >= 1 /\ mc_stride <= mc_window)
        => \A j \in 0 .. (Len(mc_lines) - 1) : Covered(j)

\* C9 witness: a document of at least three lines chunked with 1 <= s <= w
\* into several overlapping chunks.
C9_Witness ==
    /\ mc_called /\ IsDocument(mc_lines) /\ Len(mc_lines) >= 3
    /\ mc_window >= 2 /\ mc_stride >= 1 /\ mc_stride < mc_window
    /\ Len(mc_out) >= 2
    /\ \A j \in 0 .. (Len(mc_lines) - 1) : Covered(j)

\* The text of the lines start .. end (0-based, inclusive), joined and trimmed.
WindowText(lines, start, end) == Strip(Join(SubSeq(lines, start + 1, end + 1)))

WellFormedChunk(c) ==
    LET n == Len(mc_lines) IN
    /\ 0 <= c.start /\ c.start <= c.end /\ c.end <= n - 1
    /\ c.end = Min(n - 1, c.start + mc_window - 1)
    /\ c.text = WindowText(mc_lines, c.start, c.end)
    /\ c.text # <<>>

\* No chunk is emitted for a window whose joined text trims to nothing.
NoEmptyWindowEmitted ==
    \A i \in 0 .. (Len(mc_lines) - 1) :
        WindowText(mc_lines, i, Min(Len(mc_lines) - 1, i + mc_window - 1)) = <<>>
            => \A c \in ChunkSeq : mc_out[c].start # i

\* C10 as stated: for any lines, window and stride, every emitted chunk has
\* 0 <= start <= end <= n-1, end = min(n-1, start+window-1) and the non-empty
\* trimmed join of lines[start..end] as text; empty windows are not emitted.
C10_ChunkShapeAnyWindow ==
    mc_called => /\ \A c \in ChunkSeq : WellFormedChunk(mc_out[c])
                 /\ NoEmptyWindowEmitted

\* C10 amended: the same for any lines, any stride and any window >= 0.
C10_ChunkShape ==
    (mc_called /\ mc_window >= 0)
        => /\ \A c \in ChunkSeq : WellFormedChunk(mc_out[c])
           /\ NoEmptyWindowEmitted

\* C10 witness: a call that emitted a chunk of several lines and skipped a
\* window of blank lines.
C10_Witness ==
    /\ mc_called /\ mc_window >= 2
    /\ \E c \in ChunkSeq : mc_out[c].end > mc_out[c].start
    /\ \E i \in 0 .. (Len(mc_lines) - 1) :
          /\ i % Max(1, mc_stride) = 0
          /\ WindowText(mc_lines, i, Min(Len(mc_lines) - 1, i + mc_window - 1)) = <<>>

\* ------------------------------------------- claims about the facade's index
Busy(t) == th[t].pc # "idle"
Asking(t) == Busy(t) /\ th[t].op = "ask"
Rebuilding(t) == Busy(t) /\ th[t].op \in {"reindex", "upload", "delete"}

\* The KBIndex objects whose __init__ is running.
UnderConstruction == {o \in ObjIds : heap[o].alloc /\ ~heap[o].done}

\* C1 as stated: under any interleaving of rebuilds and queries, every query
\* that reaches the retrieval runs on one fully constructed KBIndex: while it
\* searches, and when it has ended, the index it was handed is a constructed
\* object, never None and never an object still under construction.
C1_QueryOnOneBuiltIndex ==
    \A t \in ThreadIds :
        Asking(t) =>
            /\ th[t].pc \in {"hs_cand", "hs_fit", "hs_rank"}
                 => th[t].idx # None /\ heap[th[t].idx].alloc /\ heap[th[t].idx].done
            /\ (th[t].pc = "done" /\ th[t].status # "insufficient")
                 => th[t].idx # None /\ heap[th[t].idx].alloc /\ heap[th[t].idx].done

\* C2 as stated: rebuilds serialize; at most one index construction is in
\* progress at any time.
C2_OneConstructionAtATime == Cardinality(UnderConstruction) <= 1

\* C3 as stated: the index a rebuild_index() call returns was built from a
\* listing that includes every document change completed before the call
\* started, and once every operation has finished the live index is the index
\* of the documents on disk.
C3_RebuildFromCurrentDisk ==
    /\ \A t \in ThreadIds :
          (Rebuilding(t) /\ th[t].pc = "done" /\ th[t].status = "ok")
              => \A d \in DocIds : heap[th[t].idx].seen_ver[d] >= th[t].start_ver[d]
    /\ ((\A t \in ThreadIds : ~Busy(t)) /\ _index # None)
          => heap[_index].chunks = ChunksOfDisk(disk)

\* C4 as stated: queries are read-only; no step changes anything reachable
\* from a constructed KBIndex (chunks, matrices, BM25, vector index, reranker).
C4_QueriesReadOnly ==
    [][\A o \in ObjIds :
          (heap[o].alloc /\ heap[o].done /\ heap'[o].alloc /\ heap'[o].done)
              => heap'[o].ix = heap[o].ix]_vars

\* EMPTY -> READY: one get_index stores the KBIndex it has just constructed
\* from the listing of the KB directory.
EmptyToReady ==
    (_index = None /\ _index' # None)
        => \E t \in ThreadIds :
              /\ Busy(t) /\ th[t].pc = "gi_store" /\ th[t].obj = _index'
              /\ th[t].built
              /\ heap'[_index'].alloc /\ heap'[_index'].done
              /\ heap'[_index'].builder = th[t].op
              /\ heap'[_index'].ix = KBIndex(heap'[_index'].chunks, cfg)

\* READY -> EMPTY: only the first statement of rebuild_index().
ReadyToEmpty ==
    (_index # None /\ _index' = None)
        => \E t \in ThreadIds :
              Rebuilding(t) /\ th[t].pc = "rb_clear" /\ th'[t].pc = "gi_check"

\* A request that found READY constructs nothing, and the index it goes on
\* with is a constructed one that another request or the startup built.
ReadyIsReused ==
    \A t \in ThreadIds :
        (Busy(t) /\ th[t].seen # None /\ th[t].pc \in {"gi_ret", "hs_cand", "hs_fit", "hs_rank", "done"})
            => /\ ~th[t].built
               /\ th[t].obj = None
               /\ th[t].idx # None
                    => heap[th[t].idx].alloc /\ heap[th[t].idx].done

\* EMPTY is left again: with no request in flight the facade is READY.
EmptyIsTransient == (\A t \in ThreadIds : ~Busy(t)) => _index # None

\* C5: the facade is a two-state machine EMPTY (_index is None) / READY.
\* EMPTY -> READY is taken by a get_index (of a query or a rebuild) that built
\* the index from the KB directory, READY -> EMPTY only inside
\* rebuild_index(), a query that finds READY constructs no index, and neither
\* state is terminal.
C5_TwoStateMachine ==
    /\ [](ReadyIsReused /\ EmptyIsTransient)
    /\ [][EmptyToReady /\ ReadyToEmpty]_vars

\* C5 witness: after a rebuild took READY -> EMPTY -> READY, a query that
\* found READY is searching the instance the rebuild stored, and a further
\* rebuild has emptied the facade again.
C5_Witness ==
    /\ _index = None
    /\ \E t \in ThreadIds :
          /\ Asking(t) /\ th[t].pc = "hs_cand" /\ ~th[t].built
          /\ th[t].seen # None /\ th[t].idx = th[t].seen
          /\ heap[th[t].idx].builder \in {"reindex", "upload", "delete"}
    /\ \E u \in ThreadIds : Rebuilding(u) /\ th[u].pc \in {"gi_check", "ki_list"}

\* --------------------------------------------- claims about hybrid_search
\* A query that went through KBIndex.hybrid_search and came back.
Searched(t) == Asking(t) /\ th[t].pc = "done" /\ th[t].idx # None

NoDuplicates(s) == \A i, j \in DOMAIN s : i # j => s[i] # s[j]

\* C6: for every query q and every k that reaches the search, the result has
\* at most k entries and at most as many as the index has chunks, all of them
\* different chunks, and it is the first max(1, k) entries of the reranker's
\* order, mapped to the candidates' chunks.
C6_TopKBound ==
    \A t \in ThreadIds :
        Searched(t) =>
            LET k == th[t].topk
                res == th[t].result
                cand == th[t].cand.cand
                order == th[t].outcome.order
            IN  /\ k = Max(1, IF th[t].top_k = 0 THEN DefaultTopK ELSE th[t].top_k)
                /\ Len(res) <= k
                /\ Len(res) <= Len(heap[th[t].idx].ix.chunks)
                /\ (th[t].status = "ok" /\ cand # <<>>)
                     => /\ Len(res) = Min(Len(order), Max(1, k))
                        /\ \A i \in 1 .. Len(res) : res[i] = cand[order[i] + 1]
                        /\ NoDuplicates(res)

\* C6 witness: a search with more candidates than k returned exactly k chunks,
\* not in candidate order.
C6_Witness ==
    \E t \in ThreadIds :
        /\ Searched(t) /\ th[t].status = "ok"
        /\ th[t].topk = 2 /\ Len(th[t].cand.cand) >= 3
        /\ Len(th[t].result) = 2
        /\ th[t].result[1] > th[t].result[2]

\* C7: on every index (no chunk or some, whatever signals are enabled) and
\* for every k, a search with an empty or whitespace-only query returns the
\* empty sequence without an error, asks no signal and never reaches the
\* reranker.
C7_EmptyQuery ==
    \A t \in ThreadIds :
        (Asking(t) /\ Strip(th[t].q) = <<>>) =>
            /\ th[t].pc \notin {"hs_fit", "hs_rank"}
            /\ Searched(t) =>
                  /\ th[t].status = "ok" /\ th[t].result = <<>>
                  /\ th[t].cand.invoked = {}
                  /\ th[t].cand.cand = <<>>
                  /\ th[t].fitted = Unfitted

\* C7 witness: a whitespace-only query with k = 2 came back from an index
\* with chunks, BM25 and the vector index enabled.
C7_Witness ==
    \E t \in ThreadIds :
        /\ Searched(t) /\ th[t].q = <<" ", " ">> /\ th[t].top_k = 2
        /\ th[t].status = "ok" /\ th[t].result = <<>>
        /\ ~heap[th[t].idx].ix.empty
        /\ heap[th[t].idx].ix.bm25 /\ heap[th[t].idx].ix.faiss = "enabled"

\* C8: for every query that is not blank and whose search reaches the fusion
\* (no exception has left a signal before it) the fused candidates are exactly
\* the union of lexical_topn, bm25_topn and faiss_topn, each id once; so they
\* contain the lexical list, and every id is a position of the chunk array.
C8_FusionIsUnion ==
    \A t \in ThreadIds :
        (Asking(t) /\ th[t].pc \in {"hs_fit", "hs_rank", "done"} /\ th[t].idx # None
           /\ ~th[t].cand.blank /\ ~th[t].cand.failed) =>
            LET c == th[t].cand
                ids == {c.cand[i] : i \in DOMAIN c.cand}
                of(s) == {s[i] : i \in DOMAIN s}
            IN  /\ ids = of(c.lex) \cup of(c.bm25) \cup of(c.faiss)
                /\ of(c.lex) \subseteq ids
                /\ NoDuplicates(c.cand)
                /\ \A i \in ids : 0 <= i /\ i < Len(heap[th[t].idx].ix.chunks)

\* C8 witness: the lexical signal found a chunk, another signal found one the
\* lexical signal did not, and both are candidates.
C8_Witness ==
    \E t \in ThreadIds :
        /\ Searched(t) /\ ~th[t].cand.blank
        /\ th[t].cand.lex # <<>>
        /\ \E i \in DOMAIN th[t].cand.faiss :
              \A j \in DOMAIN th[t].cand.lex : th[t].cand.lex[j] # th[t].cand.faiss[i]
        /\ \E i \in DOMAIN th[t].cand.bm25 : \E j \in DOMAIN th[t].cand.lex :
              th[t].cand.lex[j] = th[t].cand.bm25[i]
        /\ Len(th[t].cand.cand) > Len(th[t].cand.lex)

\* ------------------------------------------------ claims about degradation
\* The questions the pure checks below try on an index.
ProbeQueries == QueryValues \cup {Placeholder}

\* The constructed KBIndex objects on the heap.
BuiltObjects == {o \in ObjIds : heap[o].alloc /\ heap[o].done}

C12_RebuildAlwaysSucceeds ==
    \A t \in ThreadIds :
        (Rebuilding(t) /\ th[t].pc = "done" /\ th[t].built)
            => /\ th[t].status = "ok"
               /\ th[t].idx # None
               /\ heap[th[t].idx].ix.chunks = ChunksOfDisk(disk)
               /\ heap[th[t].idx].ix.lex_vocab # {}

\* What the search of thread t found, given which signals raised in it.
SignalFailureContained(t, signal) ==
    LET c == th[t].cand
        ix == heap[th[t].idx].ix
        alone == Candidates(ix, th[t].q, FALSE, FALSE)
        built == KBIndex(ix.chunks, cfg)
    IN  /\ ~c.failed
        /\ c.lex = alone.lex
        /\ c.bm25 = (IF signal = "bm25" THEN <<>> ELSE alone.bm25)
        /\ c.faiss = (IF signal = "faiss" THEN <<>> ELSE alone.faiss)
        /\ SeqToSet(c.cand) = SeqToSet(c.lex) \cup SeqToSet(c.bm25) \cup SeqToSet(c.faiss)
        /\ ix.bm25 = built.bm25 /\ ix.faiss = built.faiss

\* C13 as stated: an exception inside the BM25 scoring or the vector search
\* of a query is caught; the signal contributes the empty list to this query,
\* the search goes on with the other signals' lists, and the signal stays
\* enabled on the index.
C13_SignalExceptionCaught ==
    \A t \in ThreadIds :
        (Asking(t) /\ th[t].idx # None /\ th[t].pc \in {"hs_fit", "done"})
            => \A signal \in th[t].cand.raised : SignalFailureContained(t, signal)

\* A search of thread t that called the reranker.
Reranked(t) == Searched(t) /\ ~th[t].cand.failed /\ th[t].cand.cand # <<>>

\* C14 as stated: with a cross-encoder configured, a failure to construct it
\* leaves the index with the TF-IDF reranker, and a failure of its inference
\* is not propagated to the query and leaves the index on the TF-IDF reranker
\* from then on.
C14_PairwiseFallback ==
    \A t \in ThreadIds :
        Reranked(t) =>
            /\ cfg.sencoder = "broken" => heap[th[t].idx].ix.reranker = "tfidf"
            /\ (cfg.sencoder = "ok" /\ th[t].outcome.raised)
                 => /\ th[t].status = "ok"
                    /\ heap[th[t].idx].ix.reranker = "tfidf"

\* C15 as stated: whenever a dimensionality reduction is fitted
\* (n_features >= 3), its component count min(dims, max(2, n_features-1, 8))
\* is at least 2 and strictly less than n_features, for every dims >= 2.
C15_EffDimsBelowFeatures ==
    (fd_called /\ fd_out.svd)
        => 2 <= fd_out.eff_dims /\ fd_out.eff_dims < fd_features

\* Why the vector index of a constructed KBIndex is in the state it is in.
VectorStateJustified(o) ==
    LET ix == heap[o].ix
        n_features == Cardinality(Vocabulary(IndexTexts(ix.chunks)))
    IN  /\ ix.faiss \in {"none", "enabled", "disabled"}
        /\ ix.faiss = "none" <=> cfg.faiss = "off"
        /\ (cfg.faiss = "no_lib" \/ cfg.faiss = "fit_error") => ix.faiss = "disabled"
        /\ (cfg.faiss # "off" /\ n_features < 3) => ix.faiss = "disabled"

\* A search on an index whose vector signal is off is the search of the
\* other two signals.
VectorSignalAbsent(t) ==
    LET c == th[t].cand IN
    /\ c.faiss = <<>>
    /\ "faiss" \notin c.raised
    /\ ~c.failed => SeqToSet(c.cand) = SeqToSet(c.lex) \cup SeqToSet(c.bm25)

\* No step changes the enabled flag of a constructed index.
VectorStateKept ==
    \A o \in ObjIds :
        (heap[o].alloc /\ heap[o].done /\ heap'[o].alloc /\ heap'[o].done)
            => heap'[o].ix.faiss = heap[o].ix.faiss

IsPermutation(order, n) ==
    /\ Len(order) = n
    /\ \A p \in 0 .. (n - 1) : \E i \in 1 .. n : order[i] = p
    /\ NoDuplicates(order)

\* The similarity the TF-IDF reranker gives candidate position p (0-based).
RerankScore(t, p) ==
    LET texts == CandTexts(heap[th[t].idx].ix, th[t].cand.cand)
    IN  TermOverlap(th[t].q, texts[p + 1], Vocabulary(RerankTexts(th[t].q, texts)))

\* What the reranker handed back to the search of thread t is well formed.
RerankerOutputWellFormed(t) ==
    LET order == th[t].outcome.order
        n == Len(th[t].cand.cand)
    IN  /\ IsPermutation(order, n)
        /\ heap[th[t].idx].ix.reranker = "tfidf"
             => \A i \in 1 .. (n - 1) :
                   RerankScore(t, order[i]) >= RerankScore(t, order[i + 1])
        /\ NoDuplicates(th[t].result)
        /\ SeqToSet(th[t].result) \subseteq SeqToSet(th[t].cand.cand)

\* C17 as stated: for every query and every non-empty candidate list the
\* reranker hands back a permutation of the candidate positions, best first,
\* and the chunks returned are distinct members of the candidate set.
C17_RerankerPermutation ==
    \A t \in ThreadIds :
        Reranked(t) => ~th[t].outcome.raised /\ RerankerOutputWellFormed(t)

\* C18 as stated: two successive builds from the same documents under the
\* same configuration give, for a fixed question and k, the same chunks in
\* the same order on the TF-IDF reranker path, ties included.
C18_Determinism ==
    Len(db_out) = 2 => db_out[1] = db_out[2]

\* Every optional signal of the index is off: no BM25, no vector index, no
\* cross-encoder.
Degraded(ix) == ~ix.bm25 /\ ix.faiss # "enabled" /\ ix.reranker = "tfidf"

\* No chunk of the index has a positive lexical score for the query.
NoPositiveChunk(ix, query) ==
    ix.empty \/ \A i \in DOMAIN ix.chunks : LexicalScores(ix, query)[i] <= 0

\* The reference: the lexical top-N as a candidate set, the TF-IDF reranker's
\* order over it, the first max(1, k) of that order.
LexicalThenRerank(ix, query, k) ==
    LET cands == Ascending(SeqToSet(lexical_topn(ix, query, TopN)))
        order == TfidfOrder(query, CandTexts(ix, cands))
    IN  [i \in 1 .. Min(Len(order), Max(1, k)) |-> cands[order[i] + 1]]

\* C19: on an index with every optional signal off, every search answers
\* without error, returns exactly the first max(1, k) entries of the TF-IDF
\* reranker's order over the lexical top-N candidates, and returns nothing
\* only when no chunk has a positive lexical score.
C19_DegradedSearch ==
    \A t \in ThreadIds :
        (Searched(t) /\ Degraded(heap[th[t].idx].ix)) =>
            LET ix == heap[th[t].idx].ix IN
            /\ th[t].status = "ok"
            /\ th[t].result = LexicalThenRerank(ix, th[t].q, th[t].topk)
            /\ th[t].result = <<>> <=> NoPositiveChunk(ix, th[t].q)

\* C19 witness: a degraded index answered with two chunks, fewer than the
\* lexical signal proposed, and not the first two candidates.
C19_Witness ==
    \E t \in ThreadIds :
        /\ Searched(t) /\ Degraded(heap[th[t].idx].ix)
        /\ Len(th[t].cand.lex) > Len(th[t].result)
        /\ Len(th[t].result) = 2
        /\ th[t].result # SubSeq(th[t].cand.cand, 1, 2)

\* handle_ask has returned an AskResponse to the request of thread t.
Answered(t) == Asking(t) /\ th[t].pc = "done" /\ th[t].status \in {"ok", "insufficient"}

Flagged(t) == detect_injection(scrub_pii(th[t].q))

\* Nothing of the retrieval has run for the request of thread t.
RetrievalNotInvoked(t) ==
    /\ th[t].idx = None /\ th[t].seen = None /\ th[t].obj = None /\ ~th[t].built
    /\ th[t].cand = NoCandidates /\ th[t].fitted = Unfitted
    /\ th[t].result = <<>>

\* C20: every AskResponse has insufficient_context = true exactly when the
\* question was flagged as an injection or the retrieval returned no chunk,
\* and then no citation and grounded_ratio 0; otherwise it has
\* insufficient_context = false and one citation per retrieved chunk, in
\* order. A flagged question is answered without any step of the retrieval.
C20_InsufficientContext ==
    \A t \in ThreadIds :
        /\ Answered(t) =>
              LET r == th[t].resp
                  chunks == th[t].result
              IN  /\ r.sent
                  /\ r.insufficient_context <=> (Flagged(t) \/ chunks = <<>>)
                  /\ r.insufficient_context
                       => r.citations = <<>> /\ r.grounded_ratio = 0
                  /\ ~r.insufficient_context
                       => /\ Len(r.citations) = Len(chunks)
                          /\ \A i \in DOMAIN chunks :
                               LET c == heap[th[t].idx].ix.chunks[chunks[i] + 1] IN
                               /\ r.citations[i].doc_id = c.doc_id
                               /\ r.citations[i].start_line = c.start_line
                               /\ r.citations[i].end_line = c.end_line
                               /\ r.citations[i].snippet = c.text
        /\ (Asking(t) /\ Flagged(t)) => Answered(t) /\ RetrievalNotInvoked(t)

\* C20 witness: a flagged question was answered as under-grounded although the
\* index holds a chunk that matches it.
C20_Witness ==
    \E t \in ThreadIds :
        /\ Answered(t) /\ Flagged(t)
        /\ th[t].resp.insufficient_context
        /\ _index # None
        /\ lexical_topn(heap[_index].ix, th[t].q, TopN) # <<>>

\* The starts of the chunks emitted so far.
EmittedStarts == {mc_out[c].start : c \in DOMAIN mc_out}

\* The multiples of step that are line indexes of mc_lines.
MultiplesBelowN(step) ==
    {j \in 0 .. (Len(mc_lines) - 1) : \E k \in 0 .. Len(mc_lines) : j = k * step}

\* The while loop has been left at the first i that is not a line index.
StoppedAtFirstExit ==
    mc_called => /\ mc_i >= Len(mc_lines)
                 /\ mc_i - Advance(mc_stride) < Len(mc_lines)

\* C21 as stated: make_chunks returns for every lines, window and stride
\* (stride <= 0 included), the emitted chunk starts are among 0, stride,
\* 2*stride, ... below n, and the loop is left as soon as i >= n.
C21_AdvanceByStride ==
    /\ <>mc_called
    /\ [](EmittedStarts \subseteq MultiplesBelowN(mc_stride) /\ StoppedAtFirstExit)

\* C21 amended: make_chunks returns for every lines, window and stride
\* (stride <= 0 included); i advances by max(1, stride) per iteration whatever
\* the window holds, so the emitted chunk starts are among 0, m, 2*m, ... below
\* n for m = max(1, stride); the loop is left as soon as i >= n, and what is
\* returned is the list the chunker is specified by.
C21_Terminates ==
    /\ <>mc_called
    /\ [](/\ mc_i >= 0
          /\ \E k \in 0 .. Len(mc_lines) : mc_i = k * Advance(mc_stride)
          /\ EmittedStarts \subseteq MultiplesBelowN(Advance(mc_stride))
          /\ StoppedAtFirstExit
          /\ mc_called => mc_out = make_chunks(mc_lines, mc_window, mc_stride))

\* C21 witness: a call with stride <= 0 has returned several chunks.
C21_Witness ==
    /\ mc_called /\ mc_stride <= 0
    /\ Len(mc_lines) >= 3 /\ Len(mc_out) >= 2

\* C22 as stated: under any interleaving with rebuild_index() calls, the value
\* get_index() returns is never None: every thread that leaves `return _index`
\* holds a KBIndex.
C22_GetIndexNeverNone ==
    [][\A t \in ThreadIds :
          (th[t].pc = "gi_ret" /\ th'[t].pc # "gi_ret") => th'[t].idx # None]_vars
====
